---------------------------- MODULE Spec2Model ----------------------------
(***************************************************************************)
(* Model of the ranking and decision core of scraper.py:                   *)
(*   _score             candidate records -> top-20 scored records         *)
(*   analyze_big_small  scored records -> Big/Small decision               *)
(*   vote               plan text -> "Big" | "Small" | abstain             *)
(* and of the two request handlers of app.py that call them.               *)
(*                                                                         *)
(* Python values are tagged records [k, n, s]:                             *)
(*   k = "absent"  the key is not in the dict                              *)
(*   k = "none"    None                                                    *)
(*   k = "num"     a number, n its value                                   *)
(*   k = "str"     a string, s its characters (a sequence of 1-char        *)
(*                 strings)                                                *)
(* Strings are over Chars: the printable ASCII characters (but for the     *)
(* grave accent, which a TLA+ string cannot hold) and tab, newline, form   *)
(* feed and carriage return.  lower() and strip() are not defined on other *)
(* characters.                                                             *)
(* Hit rates and trade counts are whole numbers, hit rates at most 100 and *)
(* trade counts at most 12.  A score, a weight and a sum of weights is a   *)
(* double, held exactly: the natural number value * 2^60, written in base  *)
(* 2^15 with the least significant limb first.  Sums and products round to *)
(* 53 significant bits, ties to even, as IEEE 754 does, and sum() adds     *)
(* from the left, rounding after every addition (CPython before 3.12).     *)
(* math.log1p(t) and h ** 1.15 are tabulated over those ranges.            *)
(* Fractional and negative scores are not represented.  A confidence is    *)
(* the fraction num / den of two doubles; the rounding of that last        *)
(* division is not represented.                                            *)
(*                                                                         *)
(* A request is served in steps: up to page.goto (Goto), the wait for the  *)
(* page and the two clicks (WaitReady), and the reading, ranking and       *)
(* answering (ApiPlans, ApiResult).  The page may change between the       *)
(* steps.  One request is served at a time.                                *)
(***************************************************************************)
EXTENDS Integers, Sequences, FiniteSets

VARIABLES page,      \* what _extract returns for the page: candidate records
          batched,   \* the page holds a block of identical cards
          data,      \* what scrape_plans returned or raised in the request
                     \* served last, unset while the next one is served
          result,    \* what analyze_big_small returned or raised in it
          last,      \* the handler that served it: "none" | "plans" | "result"
          handler,   \* the handler serving a request now, "none" if none is
          pc,        \* where it stands: "idle" | "waiting" | "settling"
          items,     \* argument of a direct analyze_big_small call
          outcome,   \* what that call returned or raised
          called,    \* the direct call has been made
          typed,     \* the pieces a plan label is put together from
          plan,      \* plan text handed to vote
          side       \* what vote returned for it

pageVars == <<page, batched>>

serveVars == <<data, result, last, handler, pc>>

callVars == <<items, outcome, called>>

voteVars == <<typed, plan, side>>

vars == <<pageVars, serveVars, callVars, voteVars>>

-----------------------------------------------------------------------------
(* Bounds *)

MaxPage == 3

BatchLen == 20

MaxItems == 3

MaxTokens == 3

-----------------------------------------------------------------------------
(* Python values *)

NoneV == [k |-> "none", n |-> 0, s |-> <<>>]

Absent == [k |-> "absent", n |-> 0, s |-> <<>>]

Num(x) == [k |-> "num", n |-> x, s |-> <<>>]

Str(cs) == [k |-> "str", n |-> 0, s |-> cs]

\* dict.get(key): a missing key reads as None
DictGet(v) == IF v.k = "absent" THEN NoneV ELSE v

\* Python truthiness of None, numbers and strings
Truthy(v) == \/ v.k = "num" /\ v.n # 0
             \/ v.k = "str" /\ v.s # <<>>

\* x or d
PyOr(v, d) == IF Truthy(v) THEN v ELSE d

Max(a, b) == IF a >= b THEN a ELSE b

Min(a, b) == IF a <= b THEN a ELSE b

-----------------------------------------------------------------------------
(* Strings *)

\* the characters strings are made of
Chars ==
    { "\t", "\n", "\f", "\r", " ", "!", "\"", "#", "$", "%", "&", "'", "(",
      ")", "*", "+", ",", "-", ".", "/", "0", "1", "2", "3", "4", "5", "6",
      "7", "8", "9", ":", ";", "<", "=", ">", "?", "@", "A", "B", "C", "D",
      "E", "F", "G", "H", "I", "J", "K", "L", "M", "N", "O", "P", "Q", "R",
      "S", "T", "U", "V", "W", "X", "Y", "Z", "[", "\\", "]", "^", "_",
      "a", "b", "c", "d", "e", "f", "g", "h", "i", "j", "k", "l", "m", "n",
      "o", "p", "q", "r", "s", "t", "u", "v", "w", "x", "y", "z", "{", "|",
      "}", "~" }

UpperChars == <<"A","B","C","D","E","F","G","H","I","J","K","L","M",
                "N","O","P","Q","R","S","T","U","V","W","X","Y","Z">>

LowerChars == <<"a","b","c","d","e","f","g","h","i","j","k","l","m",
                "n","o","p","q","r","s","t","u","v","w","x","y","z">>

\* what lower() makes of each character of Chars: A..Z fold, the rest stay
LowerOf ==
    [c \in Chars |->
        IF \E i \in 1..Len(UpperChars) : UpperChars[i] = c
        THEN LowerChars[CHOOSE i \in 1..Len(UpperChars) : UpperChars[i] = c]
        ELSE c]

LowerChar(c) == LowerOf[c]

\* str.lower()
Lower(t) == [i \in 1..Len(t) |-> LowerChar(t[i])]

\* w in t
Contains(t, w) ==
    \E i \in 1..(Len(t) - Len(w) + 1) : SubSeq(t, i, i + Len(w) - 1) = w

\* any(ch in t for ch in list(chars))
AnyCharIn(t, chars) == \E i \in 1..Len(t) : t[i] \in chars

\* the characters of Chars that strip() removes
SpaceOf == [c \in Chars |-> c \in {" ", "\t", "\n", "\f", "\r"}]

IsSpace(c) == SpaceOf[c]

RECURSIVE LStrip(_)
LStrip(t) == IF t # <<>> /\ IsSpace(t[1]) THEN LStrip(Tail(t)) ELSE t

RECURSIVE RStrip(_)
RStrip(t) ==
    IF t # <<>> /\ IsSpace(t[Len(t)]) THEN RStrip(SubSeq(t, 1, Len(t) - 1)) ELSE t

\* str.strip()
Strip(t) == RStrip(LStrip(t))

DigitChars == <<"0","1","2","3","4","5","6","7","8","9">>

\* the value of each decimal digit
DigitOf ==
    [c \in {DigitChars[i] : i \in 1..Len(DigitChars)} |->
        (CHOOSE i \in 1..Len(DigitChars) : DigitChars[i] = c) - 1]

\* the value of a string of decimal digits
RECURSIVE DecimalOf(_)
DecimalOf(t) ==
    IF t = <<>> THEN 0
    ELSE 10 * DecimalOf(SubSeq(t, 1, Len(t) - 1)) + DigitOf[t[Len(t)]]

\* the characters of Chars that occur in some string float() accepts, once
\* stripped: digits, sign, point, exponent, underscore, and the letters of
\* inf, infinity and nan
FloatChars ==
    DOMAIN DigitOf \cup {"+", "-", ".", "_", "e", "E"}
        \cup {"i", "n", "f", "t", "y", "a", "I", "N", "F", "T", "Y", "A"}

\* an expression evaluated to x, or raising e
Value(x) == [exc |-> "", val |-> x]

Throw(e) == [exc |-> e, val |-> NoneV]

\* float(x) for x a number or a string over Chars.  A string of digits,
\* stripped, is its value; an empty one, or one with a character that no
\* float literal has, raises ValueError; on other strings (signs, points,
\* exponents, inf, nan) float is not defined here.
float(x) ==
    LET t == Strip(x.s)
    IN  CASE x.k = "num" -> Value(x.n)
          [] x.k = "str" /\ t # <<>> /\ (\A i \in 1..Len(t) : t[i] \in DOMAIN DigitOf) ->
                Value(DecimalOf(t))
          [] x.k = "str" /\ (t = <<>> \/ \E i \in 1..Len(t) : t[i] \notin FloatChars) ->
                Throw("ValueError")

-----------------------------------------------------------------------------
(* Doubles *)

\* a limb holds LimbBits bits
LimbBits == 15

Base == 32768

\* 1.0 is Base ^ UnitLimbs
UnitLimbs == 4

\* bits of a double's significand
Mantissa == 53

Pow2(k) == 2 ^ k

Zero == <<>>

\* n zero limbs
RECURSIVE Zeros(_)
Zeros(n) == IF n = 0 THEN <<>> ELSE <<0>> \o Zeros(n - 1)

\* a whole number 0 <= n < Base as a double
FromInt(n) ==
    CASE n = 0 -> Zero
      [] n > 0 /\ n < Base -> Zeros(UnitLimbs) \o <<n>>

\* 1.0
One == FromInt(1)

\* without the zero limbs at the high end
RECURSIVE Norm(_)
Norm(x) == IF x # <<>> /\ x[Len(x)] = 0 THEN Norm(SubSeq(x, 1, Len(x) - 1)) ELSE x

RECURSIVE AddCarry(_, _, _)
AddCarry(x, y, c) ==
    IF x = <<>> /\ y = <<>> THEN (IF c = 0 THEN <<>> ELSE <<c>>)
    ELSE LET s == (IF x = <<>> THEN 0 ELSE x[1]) + (IF y = <<>> THEN 0 ELSE y[1]) + c
         IN  <<s % Base>> \o AddCarry(IF x = <<>> THEN <<>> ELSE Tail(x),
                                      IF y = <<>> THEN <<>> ELSE Tail(y),
                                      s \div Base)

\* the exact sum
NatAdd(x, y) == AddCarry(x, y, 0)

RECURSIVE MulLimb(_, _, _)
MulLimb(x, d, c) ==
    IF x = <<>> THEN (IF c = 0 THEN <<>> ELSE <<c>>)
    ELSE LET p == x[1] * d + c
         IN  <<p % Base>> \o MulLimb(Tail(x), d, p \div Base)

RECURSIVE MulLimbs(_, _)
MulLimbs(x, y) ==
    IF x = <<>> THEN <<>>
    ELSE NatAdd(MulLimb(y, x[1], 0), <<0>> \o MulLimbs(Tail(x), y))

\* the exact product, in units of Base ^ -(2 * UnitLimbs)
NatMul(x, y) == Norm(MulLimbs(x, y))

\* x >= y
RECURSIVE NatGE(_, _)
NatGE(x, y) ==
    IF Len(x) # Len(y) THEN Len(x) > Len(y)
    ELSE IF x = <<>> THEN TRUE
    ELSE IF x[Len(x)] # y[Len(y)] THEN x[Len(x)] > y[Len(y)]
    ELSE NatGE(SubSeq(x, 1, Len(x) - 1), SubSeq(y, 1, Len(y) - 1))

NatGT(x, y) == ~NatGE(y, x)

\* the number of bits of x
BitLen(x) ==
    IF x = <<>> THEN 0
    ELSE LimbBits * (Len(x) - 1)
           + (CHOOSE k \in 1..LimbBits : Pow2(k - 1) <= x[Len(x)] /\ x[Len(x)] < Pow2(k))

\* x rounded to Mantissa significant bits, ties to even
Round(x) ==
    LET s == BitLen(x) - Mantissa
    IN  IF s <= 0 THEN x
        ELSE LET j      == s \div LimbBits
                 k      == s % LimbBits
                 limb   == x[j + 1]
                 half   == IF k > 0 THEN (limb \div Pow2(k - 1)) % 2 = 1
                                    ELSE x[j] \div Pow2(LimbBits - 1) = 1
                 below  == IF k > 0
                           THEN limb % Pow2(k - 1) # 0 \/ \E i \in 1..j : x[i] # 0
                           ELSE x[j] % Pow2(LimbBits - 1) # 0 \/ \E i \in 1..(j - 1) : x[i] # 0
                 odd    == (limb \div Pow2(k)) % 2 = 1
                 down   == Zeros(j) \o <<limb - (limb % Pow2(k))>>
                              \o SubSeq(x, j + 2, Len(x))
                 ulp    == Zeros(j) \o <<Pow2(k)>>
             IN  IF half /\ (below \/ odd) THEN NatAdd(down, ulp) ELSE down

\* a + b of two doubles
FloatAdd(a, b) == Round(NatAdd(a, b))

\* a * b of two doubles, for a product that is zero or not below 2^-7
FloatMul(a, b) ==
    LET p == Round(NatMul(a, b))
    IN  CASE p = <<>> -> Zero
          [] p # <<>> /\ (\A i \in 1..UnitLimbs : p[i] = 0) ->
                SubSeq(p, UnitLimbs + 1, Len(p))

\* math.log1p(t) for whole t in 0..12
Log1pTable ==
    << <<>>,
       <<30592, 31289, 1533, 22713>>,
       <<2560, 23046, 10730, 3231, 1>>,
       <<28416, 29811, 3067, 12658, 1>>,
       <<13056, 23322, 2015, 19970, 1>>,
       <<512, 21568, 12264, 25944, 1>>,
       <<22272, 25780, 19128, 30995, 1>>,
       <<26112, 28333, 4601, 2603, 2>>,
       <<5632, 13324, 21461, 6462, 2>>,
       <<11264, 21844, 3549, 9915, 2>>,
       <<6144, 31965, 7611, 13038, 2>>,
       <<31232, 20089, 13798, 15889, 2>>,
       <<8704, 17969, 8537, 18512, 2>> >>

Log1p(t) == Log1pTable[t + 1]

\* h ** 1.15 for whole h in 0..100
Pow115Table ==
    << <<>>,
       <<0, 0, 0, 0, 1>>,
       <<28672, 19191, 24409, 7180, 2>>,
       <<9728, 16962, 30479, 17610, 3>>,
       <<8192, 31769, 18367, 30296, 4>>,
       <<21504, 18059, 17397, 11968, 6>>,
       <<25600, 3545, 11001, 27855, 7>>,
       <<22528, 2328, 7870, 12211, 9>>,
       <<30720, 18321, 8423, 30419, 10>>,
       <<6144, 7984, 14778, 16826, 12>>,
       <<4096, 10393, 9916, 4108, 14>>,
       <<12288, 104, 20919, 24957, 15>>,
       <<0, 28644, 2449, 13776, 17>>,
       <<8192, 3689, 30941, 3278, 19>>,
       <<0, 9440, 4683, 26189, 20>>,
       <<0, 3862, 18880, 16931, 22>>,
       <<12288, 21963, 236, 8240, 24>>,
       <<20480, 21495, 6065, 84, 26>>,
       <<28672, 1717, 5628, 25205, 27>>,
       <<8192, 17372, 26672, 18042, 29>>,
       <<24576, 738, 10592, 11343, 31>>,
       <<16384, 25652, 30695, 5086, 33>>,
       <<0, 31599, 21008, 32023, 34>>,
       <<0, 21983, 30953, 26600, 36>>,
       <<24576, 19843, 22533, 21571, 38>>,
       <<24576, 8616, 28967, 16921, 40>>,
       <<8192, 19939, 19214, 12638, 42>>,
       <<0, 9681, 25302, 8709, 44>>,
       <<16384, 10758, 8041, 5124, 46>>,
       <<8192, 28359, 18099, 1871, 48>>,
       <<8192, 24735, 29764, 31709, 49>>,
       <<0, 31646, 4387, 29094, 51>>,
       <<24576, 13546, 19629, 26783, 53>>,
       <<16384, 18821, 5704, 24770, 55>>,
       <<24576, 10969, 6108, 23046, 57>>,
       <<0, 4411, 12516, 21604, 59>>,
       <<24576, 32400, 29199, 20437, 61>>,
       <<8192, 20285, 6492, 19540, 63>>,
       <<16384, 29753, 3731, 18905, 65>>,
       <<0, 10599, 24616, 18526, 67>>,
       <<16384, 31784, 16479, 18399, 69>>,
       <<16384, 19267, 709, 18518, 71>>,
       <<0, 6729, 6615, 18877, 73>>,
       <<0, 9985, 5355, 19472, 75>>,
       <<16384, 11258, 7750, 20298, 77>>,
       <<16384, 9330, 31067, 21350, 79>>,
       <<0, 16108, 306, 22626, 81>>,
       <<0, 30609, 9970, 24119, 83>>,
       <<0, 5186, 28810, 25826, 85>>,
       <<0, 29594, 30575, 27744, 87>>,
       <<0, 20467, 26498, 29869, 89>>,
       <<0, 16526, 32250, 32197, 91>>,
       <<0, 26284, 2160, 1958, 94>>,
       <<16384, 21312, 25593, 4682, 96>>,
       <<0, 19672, 31822, 7600, 98>>,
       <<16384, 13509, 19208, 10709, 100>>,
       <<0, 24380, 22246, 14005, 102>>,
       <<16384, 17402, 13092, 17486, 104>>,
       <<16384, 32028, 32471, 21148, 106>>,
       <<16384, 6029, 25693, 24990, 108>>,
       <<16384, 17673, 6346, 29009, 110>>,
       <<16384, 2687, 23406, 433, 113>>,
       <<16384, 3938, 30035, 4797, 115>>,
       <<0, 15132, 14543, 9331, 117>>,
       <<16384, 21895, 279, 14032, 119>>,
       <<0, 26169, 12761, 18897, 121>>,
       <<0, 5248, 14046, 23925, 123>>,
       <<0, 20367, 941, 29114, 125>>,
       <<0, 2862, 4925, 1693, 128>>,
       <<0, 25033, 26525, 7196, 130>>,
       <<0, 28842, 2481, 12855, 132>>,
       <<0, 18142, 2277, 18666, 134>>,
       <<0, 17000, 31467, 24627, 136>>,
       <<0, 14968, 31613, 30738, 138>>,
       <<0, 22517, 11295, 4229, 141>>,
       <<0, 33, 13288, 10633, 143>>,
       <<0, 14157, 16199, 17181, 145>>,
       <<0, 25485, 32726, 23871, 147>>,
       <<0, 22867, 11301, 30703, 149>>,
       <<0, 7489, 32652, 4905, 152>>,
       <<0, 18525, 14846, 12014, 154>>,
       <<0, 31965, 8162, 19259, 156>>,
       <<0, 23381, 31209, 26638, 158>>,
       <<0, 26887, 5350, 1384, 161>>,
       <<0, 22845, 16813, 9029, 163>>,
       <<0, 11406, 21742, 16805, 165>>,
       <<0, 6626, 10004, 24711, 167>>,
       <<0, 13752, 5158, 32745, 169>>,
       <<0, 19750, 31657, 8137, 172>>,
       <<0, 27301, 16514, 16424, 174>>,
       <<0, 31578, 18651, 24835, 176>>,
       <<0, 3139, 32265, 601, 179>>,
       <<0, 5922, 19567, 9258, 181>>,
       <<0, 22428, 9067, 18036, 183>>,
       <<0, 8540, 30013, 26933, 185>>,
       <<0, 12464, 14061, 3182, 188>>,
       <<0, 28472, 24634, 12316, 190>>,
       <<0, 9961, 27525, 21567, 192>>,
       <<0, 7628, 21945, 30934, 194>>,
       <<0, 5456, 7741, 7648, 197>>,
       <<0, 10310, 18143, 17243, 199>> >>

Pow115(h) == Pow115Table[h + 1]

\* the sequence f with every element worked out
Tuple(f) == f \o <<>>

\* 1.0 + math.log1p(t) for every t of Log1pTable
MultiplierTable ==
    Tuple([j \in 1..Len(Log1pTable) |-> FloatAdd(One, Log1pTable[j])])

\* hit * (1.0 + math.log1p(trd)) for every whole hit in 0..100 and every trd
\* of Log1pTable
ScoreTable ==
    Tuple([i \in 1..Len(Pow115Table) |->
        Tuple([j \in 1..Len(Log1pTable) |->
            FloatMul(FromInt(i - 1), MultiplierTable[j])])])

\* (h ** 1.15) * (1.0 + math.log1p(t)) for every h of Pow115Table and every t
\* of Log1pTable
WeightTable ==
    Tuple([i \in 1..Len(Pow115Table) |->
        Tuple([j \in 1..Len(Log1pTable) |->
            FloatMul(Pow115Table[i], MultiplierTable[j])])])

-----------------------------------------------------------------------------
(* _score *)

TopN == 20

\* float(r.get(key) or 0.0)
FloatOrZero(v) == float(PyOr(DictGet(v), Num(0)))

\* faulty variant: the multiplier without its 1.0
ScoreOfNoBase(hit, trd) == FloatMul(FromInt(hit), Log1p(Max(trd, 0)))

\* hit * (1.0 + math.log1p(max(trd, 0.0))), for a whole hit in 0..100
ScoreOf(hit, trd) == ScoreTable[hit + 1][Max(trd, 0) + 1]

\* faulty variant: zero is emitted as zero
NoneIfZeroKeep(x) == Num(x)

\* x if x else None
NoneIfZero(x) == IF x # 0 THEN Num(x) ELSE NoneV

\* (r.get(key) or "").strip(): a number that is not 0 has no strip
StripOrEmpty(v) ==
    LET x == PyOr(DictGet(v), Str(<<>>))
    IN  IF x.k = "str" THEN Value(Str(Strip(x.s))) ELSE Throw("AttributeError")

\* one pass of the loop body: the dict appended to out for candidate r, or
\* the first exception in the order the code evaluates hit, trd, name, plan
ScoredRecord(r) ==
    LET hit == FloatOrZero(r.hitRate)
        trd == FloatOrZero(r.trade)
        nm  == StripOrEmpty(r.name)
        pl  == StripOrEmpty(r.plan)
    IN  IF hit.exc # "" THEN Throw(hit.exc)
        ELSE IF trd.exc # "" THEN Throw(trd.exc)
        ELSE IF nm.exc # "" THEN Throw(nm.exc)
        ELSE IF pl.exc # "" THEN Throw(pl.exc)
        ELSE Value([name     |-> nm.val,
                    hit_rate |-> NoneIfZero(hit.val),
                    trade    |-> NoneIfZero(trd.val),
                    plan     |-> pl.val,
                    score    |-> Num(ScoreOf(hit.val, trd.val))])

\* x[key] or -1.0
OrMinusOne(v) == PyOr(v, Num(-1)).n

\* the sort key (x["score"], x["hit_rate"] or -1.0, x["trade"] or -1.0)
RankKey(x) == <<x.score.n, OrMinusOne(x.hit_rate), OrMinusOne(x.trade)>>

\* faulty variant: only the first component is compared
KeyGEScoreOnly(a, b) == NatGE(a[1], b[1])

\* tuple comparison a >= b
KeyGE(a, b) ==
    \/ NatGT(a[1], b[1])
    \/ a[1] = b[1] /\ a[2] > b[2]
    \/ a[1] = b[1] /\ a[2] = b[2] /\ a[3] >= b[3]

\* list.sort(reverse=True) is stable: x goes after every element whose key
\* is >= its own.  sorted is a descending sequence of [key, val].
InsertDesc(sorted, x) ==
    LET n == Cardinality({j \in 1..Len(sorted) : KeyGE(sorted[j].key, x.key)})
    IN  SubSeq(sorted, 1, n) \o <<x>> \o SubSeq(sorted, n + 1, Len(sorted))

RECURSIVE SortDesc(_)
SortDesc(s) ==
    IF s = <<>> THEN <<>>
    ELSE InsertDesc(SortDesc(SubSeq(s, 1, Len(s) - 1)), s[Len(s)])

\* out.sort(key=..., reverse=True)
SortRanked(out) ==
    LET keyed  == [i \in 1..Len(out) |-> [key |-> RankKey(out[i]), val |-> out[i]]]
        sorted == SortDesc(keyed)
    IN  [i \in 1..Len(out) |-> sorted[i].val]

\* faulty variant: out[-20:]
TruncateTail(out) == SubSeq(out, Len(out) - Min(TopN, Len(out)) + 1, Len(out))

\* out[:20]
Truncate(out) == SubSeq(out, 1, Min(TopN, Len(out)))

\* the list _score returns, or the exception of the first candidate that
\* raises
_score(raw) ==
    LET scored == [i \in 1..Len(raw) |-> ScoredRecord(raw[i])]
        bad    == {i \in 1..Len(raw) : scored[i].exc # ""}
    IN  IF bad # {}
        THEN Throw(scored[CHOOSE i \in bad : \A j \in bad : i <= j].exc)
        ELSE Value(Truncate(SortRanked([i \in 1..Len(raw) |-> scored[i].val])))

\* top[0] if top else None, as a sequence of at most one record
BestOf(top) == IF top # <<>> THEN <<top[1]>> ELSE <<>>

\* {"items": top, "best": best}
Scraped(top) ==
    [status |-> "ok", exc |-> "", items |-> top, best |-> BestOf(top)]

\* scrape_plans left by an exception
ScrapeRaised(e) ==
    [status |-> "raised", exc |-> e, items |-> <<>>, best |-> <<>>]

\* how scrape_plans gets to the loaded page: the import of playwright, the
\* installer of _ensure_playwright_runtime, _launch and page.goto return,
\* or one of them raises
GotoOutcomes ==
    {"ok", "ModuleNotFoundError", "CalledProcessError", "Error", "TimeoutError"}

\* how page.wait_for_timeout and page.evaluate end
EvaluateOutcomes == {"ok", "Error", "TimeoutError"}

\* the exceptions of the browser part
BrowserFailures == (GotoOutcomes \cup EvaluateOutcomes) \ {"ok"}

\* scrape_plans from page.wait_for_timeout on, on a page for which _extract
\* returns raw, the browser calls ending in evaluated
scrape_plans(evaluated, raw) ==
    IF evaluated # "ok" THEN ScrapeRaised(evaluated)
    ELSE LET top == _score(raw)
         IN  IF top.exc # "" THEN ScrapeRaised(top.exc) ELSE Scraped(top.val)

-----------------------------------------------------------------------------
(* analyze_big_small *)

ReasonsN == 5

HasBig(t) == Contains(t, <<"b","i","g">>)

HasSmall(t) == Contains(t, <<"s","m","a","l","l">>)

HasHighDigit(t) == AnyCharIn(t, {"6","7","8","9"})

HasLowDigit(t) == AnyCharIn(t, {"0","1","2","3","4","5"})

HasUpWord(t) == Contains(t, <<"h","i","g","h">>) \/ Contains(t, <<"u","p">>)

HasDownWord(t) == Contains(t, <<"l","o","w">>) \/ Contains(t, <<"d","o","w","n">>)

\* faulty variant: rule 1 without its "small" not in t
voteBigFirst(p) ==
    LET t == Lower(p)
    IN  IF HasBig(t) THEN "Big"
        ELSE IF HasSmall(t) /\ ~HasBig(t) THEN "Small"
        ELSE IF HasHighDigit(t) /\ ~HasLowDigit(t) THEN "Big"
        ELSE IF HasLowDigit(t) /\ ~HasHighDigit(t) THEN "Small"
        ELSE IF HasUpWord(t) THEN "Big"
        ELSE IF HasDownWord(t) THEN "Small"
        ELSE "None"

\* faulty variant: the synonym rules moved ahead of the digit rules
voteSynonymsFirst(p) ==
    LET t == Lower(p)
    IN  IF HasBig(t) /\ ~HasSmall(t) THEN "Big"
        ELSE IF HasSmall(t) /\ ~HasBig(t) THEN "Small"
        ELSE IF HasUpWord(t) THEN "Big"
        ELSE IF HasDownWord(t) THEN "Small"
        ELSE IF HasHighDigit(t) /\ ~HasLowDigit(t) THEN "Big"
        ELSE IF HasLowDigit(t) /\ ~HasHighDigit(t) THEN "Small"
        ELSE "None"

\* vote(plan) for a string plan; "None" is Python's None
vote(p) ==
    LET t == Lower(p)
    IN  IF HasBig(t) /\ ~HasSmall(t) THEN "Big"
        ELSE IF HasSmall(t) /\ ~HasBig(t) THEN "Small"
        ELSE IF HasHighDigit(t) /\ ~HasLowDigit(t) THEN "Big"
        ELSE IF HasLowDigit(t) /\ ~HasHighDigit(t) THEN "Small"
        ELSE IF HasUpWord(t) THEN "Big"
        ELSE IF HasDownWord(t) THEN "Small"
        ELSE "None"

\* it.get("plan") or ""
PlanArg(it) == PyOr(DictGet(it.plan), Str(<<>>))

\* it.get(key) or 0.0
NumArg(v) == PyOr(DictGet(v), Num(0))

\* what one pass of the loop body raises on it, "" if nothing:
\* (plan or "").lower() on a non-string, max() of a string and a float
ItemRaises(it) ==
    IF PlanArg(it).k # "str" THEN "AttributeError"
    ELSE IF vote(PlanArg(it).s) = "None" THEN ""
    ELSE IF NumArg(it.hit_rate).k = "str" \/ NumArg(it.trade).k = "str"
         THEN "TypeError"
    ELSE ""

\* max(hit_rate or 0, 0) ** 1.15 * (1 + log1p(max(trade or 0, 0)))
Weight(it) ==
    WeightTable[Max(NumArg(it.hit_rate).n, 0) + 1][Max(NumArg(it.trade).n, 0) + 1]

\* the dict appended to votes for a record that votes v
VoteOf(it, v) ==
    [side |-> v, weight |-> Weight(it),
     name |-> DictGet(it.name), plan |-> DictGet(it.plan)]

\* the votes list after the loop over its
RECURSIVE CastVotes(_)
CastVotes(its) ==
    IF its = <<>> THEN <<>>
    ELSE LET it   == its[Len(its)]
             rest == CastVotes(SubSeq(its, 1, Len(its) - 1))
             v    == vote(PlanArg(it).s)
         IN  IF v = "None" THEN rest ELSE Append(rest, VoteOf(it, v))

\* sum(v["weight"] for v in votes if v["side"] == sd): from the int 0, one
\* addition per vote of that side, in the order of votes
RECURSIVE SideScore(_, _)
SideScore(votes, sd) ==
    IF votes = <<>> THEN Zero
    ELSE LET sofar == SideScore(SubSeq(votes, 1, Len(votes) - 1), sd)
             v     == votes[Len(votes)]
         IN  CASE sofar = Zero /\ v.side = sd -> v.weight
               [] sofar # Zero /\ v.side = sd -> FloatAdd(sofar, v.weight)
               [] v.side # sd -> sofar

\* faulty variant: the votes are left in casting order
SortVotesNone(votes) == votes

\* votes.sort(key=lambda x: x["weight"], reverse=True)
SortVotes(votes) ==
    LET keyed  == [i \in 1..Len(votes) |->
                     [key |-> <<votes[i].weight, 0, 0>>, val |-> votes[i]]]
        sorted == SortDesc(keyed)
    IN  [i \in 1..Len(votes) |-> sorted[i].val]

\* votes[:5]
TopReasons(votes) == SubSeq(votes, 1, Min(ReasonsN, Len(votes)))

\* faulty variant: total < 0
NoSignalStrict(total) == NatGT(Zero, total)

\* total <= 0
NoSignal(total) == NatGE(Zero, total)

\* faulty variant: big_score > small_score
BigWinsStrict(big, small) == NatGT(big, small)

\* big_score >= small_score
BigWins(big, small) == NatGE(big, small)

Returned(d, num, den, rs) ==
    [status |-> "ok", exc |-> "", decision |-> d,
     confidence |-> [num |-> num, den |-> den], reasons |-> rs]

\* {"decision": None, "confidence": 0.0, "reasons": []}
NoDecision == Returned("None", Zero, One, <<>>)

Raised(e) ==
    [status |-> "raised", exc |-> e, decision |-> "None",
     confidence |-> [num |-> Zero, den |-> One], reasons |-> <<>>]

NotCalled ==
    [status |-> "unset", exc |-> "", decision |-> "None",
     confidence |-> [num |-> Zero, den |-> One], reasons |-> <<>>]

analyze_big_small(its) ==
    IF its = <<>> THEN NoDecision
    ELSE IF \E i \in 1..Len(its) : ItemRaises(its[i]) # ""
    THEN Raised(ItemRaises(its[CHOOSE i \in 1..Len(its) :
                                  /\ ItemRaises(its[i]) # ""
                                  /\ \A j \in 1..(i - 1) : ItemRaises(its[j]) = ""]))
    ELSE LET votes == CastVotes(its)
             big   == SideScore(votes, "Big")
             small == SideScore(votes, "Small")
             total == FloatAdd(big, small)
         IN  IF NoSignal(total) THEN NoDecision
             ELSE IF BigWins(big, small)
                  THEN Returned("Big", big, total, TopReasons(SortVotes(votes)))
                  ELSE Returned("Small", small, total, TopReasons(SortVotes(votes)))

-----------------------------------------------------------------------------
(* Inputs *)

BigTrend == <<"B","i","g"," ","t","r","e","n","d">>

SmallDip == <<"s","m","a","l","l"," ","d","i","p">>

BigToSmallSwing ==
    <<"B","i","g"," ","t","o"," ","S","m","a","l","l"," ","s","w","i","n","g">>

Range69 == <<"6","-","9"," ","r","a","n","g","e">>

Range05 == <<"0","-","5"," ","r","a","n","g","e">>

Range37 == <<"3","-","7"," ","r","a","n","g","e">>

Candidate(nm, hr, tr, pl) ==
    [name |-> Str(nm), hitRate |-> hr, trade |-> tr, plan |-> Str(pl)]

\* cards the extractor can produce: trimmed strings, numbers >= 0 or null
CandidatePool ==
    { Candidate(<<"a">>, Num(50), Num(10), BigTrend),
      Candidate(<<"b">>, Num(70), Num(3),  SmallDip),
      Candidate(<<"c">>, Num(50), Num(10), SmallDip),
      Candidate(<<"d">>, NoneV,   Num(3),  Range69),
      Candidate(<<"e">>, Num(0),  NoneV,   <<"u","p">>),
      Candidate(<<"f">>, Num(80), Num(0),  BigToSmallSwing),
      Candidate(<<"g">>, Num(80), NoneV,   <<>>) }

BatchPool ==
    { Candidate(<<"m">>, Num(50), Num(3), Range05),
      Candidate(<<"n">>, NoneV,   NoneV,  <<"d","o","w","n">>) }

Item(nm, hr, tr, pl) ==
    [name |-> nm, hit_rate |-> hr, trade |-> tr, plan |-> pl, score |-> Absent]

\* records a caller may hand to analyze_big_small directly, sparse and
\* ill-typed ones included
ItemPool ==
    { Item(Str(<<"a">>), Num(50), Num(10), Str(BigTrend)),
      Item(Str(<<"b">>), Num(70), Num(3),  Str(SmallDip)),
      Item(Str(<<"c">>), Num(80), Num(3),  Absent),
      Item(Absent,       Absent,  Absent,  NoneV),
      Item(Str(<<"e">>), Num(50), Num(10), Num(5)),
      Item(Str(<<"f">>), Str(<<"h","i","g","h">>), Num(3), Str(<<"u","p">>)),
      Item(Str(<<"g">>), Str(<<"h","i","g","h">>), Num(3), Str(<<"h","o","l","d">>)),
      Item(NoneV,        Str(<<>>), Absent, Str(<<"d","o","w","n">>)),
      Item(Str(<<"i">>), Num(50), Str(<<"x">>), Str(<<"l","o","w">>)),
      Item(Str(<<"j">>), Num(50), Num(10), Num(0)) }

\* pieces of plan labels
TokenPool ==
    { <<"B","i","g">>, <<" ","S","m","a","l","l">>, <<"6","-","9">>,
      <<"0","-","5">>, <<"3","-","7">>, <<"u","p">>, <<"l","o","w">>,
      <<"h","i","g","h">>, <<"d","o","w","n">>, <<" ","r","a","n","g","e">> }

RECURSIVE Concat(_)
Concat(ts) == IF ts = <<>> THEN <<>> ELSE ts[1] \o Concat(Tail(ts))

-----------------------------------------------------------------------------
(* The served page: /api/plans and /api/result *)

NoData == [status |-> "unset", exc |-> "", items |-> <<>>, best |-> <<>>]

IdleCall == /\ items = <<>> /\ outcome = NotCalled /\ called = FALSE

IdleVote == /\ typed = <<>> /\ plan = <<>> /\ side = "None"

IdlePage == /\ page = <<>> /\ batched = FALSE /\ data = NoData
            /\ result = NotCalled /\ last = "none"
            /\ handler = "none" /\ pc = "idle"

Init == IdlePage /\ IdleCall /\ IdleVote

FreeCards == Len(page) - (IF batched THEN BatchLen ELSE 0)

\* one more card on the page, before or while it is served
Render(r) ==
    /\ last = "none"
    /\ FreeCards < MaxPage
    /\ page' = Append(page, r)
    /\ UNCHANGED <<batched, serveVars, callVars, voteVars>>

\* a block of identical cards at the top of the page
RenderBatch(r) ==
    /\ last = "none"
    /\ page = <<>>
    /\ page' = page \o [i \in 1..BatchLen |-> r]
    /\ batched' = TRUE
    /\ UNCHANGED <<serveVars, callVars, voteVars>>

\* GET /api/plans (h = "plans") or GET /api/result (h = "result") arrives
\* and scrape_plans runs up to page.goto.  If that part raises, the request
\* ends there with the exception.
Goto(h) ==
    /\ pc = "idle"
    /\ \E o \in GotoOutcomes :
          IF o = "ok"
          THEN /\ pc' = "waiting"
               /\ handler' = h
               /\ data' = NoData
               /\ last' = "none"
          ELSE /\ pc' = "idle"
               /\ handler' = "none"
               /\ data' = ScrapeRaised(o)
               /\ last' = h
    /\ result' = NotCalled
    /\ UNCHANGED <<pageVars, callVars, voteVars>>

\* _wait_ready returns, the text found or the 15 s over, and the two clicks
\* are made; every exception of this part is swallowed
WaitReady ==
    /\ pc = "waiting"
    /\ pc' = "settling"
    /\ UNCHANGED <<pageVars, data, result, last, handler, callVars, voteVars>>

\* the rest of GET /api/plans: after the 800 ms, _extract reads the page,
\* _score ranks it and the response is made
ApiPlans ==
    /\ pc = "settling"
    /\ handler = "plans"
    /\ \E e \in EvaluateOutcomes : data' = scrape_plans(e, page)
    /\ result' = NotCalled
    /\ last' = "plans"
    /\ handler' = "none"
    /\ pc' = "idle"
    /\ UNCHANGED <<pageVars, callVars, voteVars>>

\* the rest of GET /api/result: as ApiPlans, and analyze_big_small runs on
\* the items if scrape_plans returned
ApiResult ==
    /\ pc = "settling"
    /\ handler = "result"
    /\ \E e \in EvaluateOutcomes : data' = scrape_plans(e, page)
    /\ result' = IF data'.status = "ok" THEN analyze_big_small(data'.items)
                                        ELSE NotCalled
    /\ last' = "result"
    /\ handler' = "none"
    /\ pc' = "idle"
    /\ UNCHANGED <<pageVars, callVars, voteVars>>

Next ==
    \/ \E r \in CandidatePool : Render(r)
    \/ \E r \in BatchPool : RenderBatch(r)
    \/ \E h \in {"plans", "result"} : Goto(h)
    \/ WaitReady
    \/ ApiPlans
    \/ ApiResult

Spec == Init /\ [][Next]_vars

-----------------------------------------------------------------------------
(* decide(items) called directly *)

Submit(r) ==
    /\ ~called
    /\ Len(items) < MaxItems
    /\ items' = Append(items, r)
    /\ UNCHANGED <<pageVars, serveVars, outcome, called, voteVars>>

Decide ==
    /\ ~called
    /\ outcome' = analyze_big_small(items)
    /\ called' = TRUE
    /\ UNCHANGED <<pageVars, serveVars, items, voteVars>>

NextDecide ==
    \/ \E r \in ItemPool : Submit(r)
    \/ Decide

SpecDecide == Init /\ [][NextDecide]_vars

-----------------------------------------------------------------------------
(* vote on a plan label, and decide on the one record that carries it *)

TypeToken(tok) ==
    /\ ~called
    /\ Len(typed) < MaxTokens
    /\ typed' = Append(typed, tok)
    /\ UNCHANGED <<pageVars, serveVars, callVars, plan, side>>

DecidePlan ==
    /\ ~called
    /\ plan' = Concat(typed)
    /\ side' = vote(plan')
    /\ items' = <<Item(Str(<<"a">>), Num(50), Num(10), Str(plan'))>>
    /\ outcome' = analyze_big_small(items')
    /\ called' = TRUE
    /\ UNCHANGED <<pageVars, serveVars, typed>>

NextVote ==
    \/ \E tok \in TokenPool : TypeToken(tok)
    \/ DecidePlan

SpecVote == Init /\ [][NextVote]_vars

-----------------------------------------------------------------------------
(* Properties of the Ranker *)

Ranked == data.items

\* a tie-break key with null counted as -1
NullAsMinusOne(v) == IF v.k = "none" THEN -1 ELSE v.n

\* an original value that is zero or absent
ZeroOrAbsent(v) == v.k \in {"none", "absent"} \/ (v.k = "num" /\ v.n = 0)

ValueOrZero(v) == IF v.k = "num" THEN v.n ELSE 0

Count(seq, e) == Cardinality({i \in 1..Len(seq) : seq[i] = e})

ScoresOf(seq) == {seq[i].score.n : i \in 1..Len(seq)}

Lowest(S) == CHOOSE m \in S : \A x \in S : m <= x

\* the least of a set of doubles
Least(S) == CHOOSE m \in S : \A x \in S : NatGE(x, m)

CountAbove(seq, m) == Cardinality({i \in 1..Len(seq) : NatGT(seq[i].score.n, m)})

AllScored == [i \in 1..Len(page) |-> ScoredRecord(page[i]).val]

\* C1: the returned list is ordered: every adjacent pair (a, b) has
\* a.score >= b.score; on equal scores a's hit_rate (null as -1) is >= b's;
\* and on equal hit_rate keys too a's trade (null as -1) is >= b's.
C1_RankedOrder ==
    \A i \in 1..(Len(Ranked) - 1) :
        LET a == Ranked[i]
            b == Ranked[i + 1]
        IN  /\ NatGE(a.score.n, b.score.n)
            /\ a.score.n = b.score.n =>
                 NullAsMinusOne(a.hit_rate) >= NullAsMinusOne(b.hit_rate)
            /\ ( /\ a.score.n = b.score.n
                 /\ NullAsMinusOne(a.hit_rate) = NullAsMinusOne(b.hit_rate) ) =>
                 NullAsMinusOne(a.trade) >= NullAsMinusOne(b.trade)

\* a pair whose order only the trade key decides, the null trade last, and a
\* pair that the score decides
C1_Witness ==
    /\ last # "none"
    /\ \E i \in 1..(Len(Ranked) - 1) :
          /\ Ranked[i].score.n = Ranked[i + 1].score.n
          /\ Ranked[i].hit_rate = Ranked[i + 1].hit_rate
          /\ Ranked[i].trade.k = "num"
          /\ Ranked[i + 1].trade.k = "none"
    /\ \E i \in 1..(Len(Ranked) - 1) :
          NatGT(Ranked[i].score.n, Ranked[i + 1].score.n)

\* C2: for n candidates the Ranker returns (whenever the browser handed it
\* the page) exactly min(20, n) records, each the scoring of a candidate,
\* and no dropped candidate scores strictly higher than a returned one;
\* empty input gives an empty list.
C2_TopTwenty ==
    (last # "none" /\ data.exc \notin BrowserFailures) =>
        LET all == AllScored
            low == Least(ScoresOf(Ranked))
        IN  /\ data.status = "ok"
            /\ Len(Ranked) = Min(20, Len(page))
            /\ Len(Ranked) <= 20 /\ Len(Ranked) <= Len(page)
            /\ page = <<>> => Ranked = <<>>
            /\ \A r \in {Ranked[j] : j \in 1..Len(Ranked)} :
                  Count(Ranked, r) <= Count(all, r)
            /\ Ranked # <<>> => CountAbove(all, low) = CountAbove(Ranked, low)

\* more than 20 candidates, and a dropped one scoring below every returned one
C2_Witness ==
    /\ last # "none"
    /\ Len(page) > 20
    /\ Len(Ranked) = 20
    /\ \E i \in 1..Len(page) :
          NatGT(Least(ScoresOf(Ranked)), AllScored[i].score.n)

\* C9: every returned record comes from a candidate whose hit-rate and
\* trade it carries unchanged, except that a zero or absent original is
\* emitted as null; its score is computed with the missing value as 0.
C9_NullWhenZeroOrAbsent ==
    \A j \in 1..Len(Ranked) :
        \E i \in 1..Len(page) :
            LET r == Ranked[j]
                c == page[i]
                h == ValueOrZero(c.hitRate)
                t == ValueOrZero(c.trade)
            IN  /\ r.name = c.name
                /\ r.plan = c.plan
                /\ r.hit_rate = (IF ZeroOrAbsent(c.hitRate) THEN NoneV ELSE c.hitRate)
                /\ r.trade = (IF ZeroOrAbsent(c.trade) THEN NoneV ELSE c.trade)
                /\ r.score.n = ScoreOf(h, t)

\* a zero hit-rate and a zero trade emitted as null next to values kept
C9_Witness ==
    /\ last # "none"
    /\ \E i \in 1..Len(page) : page[i].hitRate = Num(0)
    /\ \E i \in 1..Len(page) : page[i].trade = Num(0)
    /\ \E i \in 1..Len(page) : page[i].hitRate = NoneV
    /\ \E j \in 1..Len(Ranked) :
          Ranked[j].hit_rate.k = "num" /\ Ranked[j].trade = NoneV
    /\ \E j \in 1..Len(Ranked) :
          Ranked[j].hit_rate = NoneV /\ Ranked[j].trade.k = "num"

\* C10: for candidates with hitRate and trade null or >= 0 the score is
\* >= 0 and is 0 exactly when the hit-rate is zero or absent; the trade
\* multiplier is never below 1 and is exactly 1 at zero trades.
C10_ScoreNonNegative ==
    \A j \in 1..Len(Ranked) :
        LET r == Ranked[j]
            h == ValueOrZero(r.hit_rate)
        IN  ( /\ r.hit_rate = NoneV \/ r.hit_rate.n >= 0
              /\ r.trade = NoneV \/ r.trade.n >= 0 ) =>
               /\ NatGE(r.score.n, Zero)
               /\ r.score.n = Zero <=> r.hit_rate = NoneV
               /\ NatGE(r.score.n, FromInt(h))
               /\ r.trade = NoneV => r.score.n = FromInt(h)

\* a positive hit-rate at zero trades, one with trades, and a zero hit-rate
C10_Witness ==
    /\ last # "none"
    /\ \E j \in 1..Len(Ranked) :
          /\ Ranked[j].hit_rate.k = "num"
          /\ Ranked[j].trade = NoneV
          /\ Ranked[j].score.n = FromInt(Ranked[j].hit_rate.n)
    /\ \E j \in 1..Len(Ranked) :
          /\ Ranked[j].trade.k = "num"
          /\ NatGT(Ranked[j].score.n, FromInt(Ranked[j].hit_rate.n))
    /\ \E j \in 1..Len(Ranked) :
          Ranked[j].hit_rate = NoneV /\ Ranked[j].score.n = Zero

-----------------------------------------------------------------------------
(* Properties of the Decision Aggregator on the ranked list *)

Votes(it) == vote(PlanArg(it).s) # "None"

Voters(its) == {i \in 1..Len(its) : Votes(its[i])}

\* the weights of the records of its that vote sd, added up from the left
RECURSIVE SideWeight(_, _)
SideWeight(its, sd) ==
    IF its = <<>> THEN Zero
    ELSE LET sofar == SideWeight(SubSeq(its, 1, Len(its) - 1), sd)
             it    == its[Len(its)]
         IN  IF sofar # Zero /\ vote(PlanArg(it).s) = sd
             THEN FloatAdd(sofar, Weight(it))
             ELSE IF vote(PlanArg(it).s) = sd THEN Weight(it) ELSE sofar

BigScore == SideWeight(Ranked, "Big")

SmallScore == SideWeight(Ranked, "Small")

Reasons == result.reasons

\* the vote a voting record casts
Ballot(it) ==
    [side |-> vote(PlanArg(it).s), weight |-> Weight(it),
     name |-> it.name, plan |-> it.plan]

\* the votes cast for its, one per voting record
Ballots(its) == [i \in Voters(its) |-> Ballot(its[i])]

BallotCount(cast, e) == Cardinality({i \in DOMAIN cast : cast[i] = e})

Heavier(cast, w) == Cardinality({i \in DOMAIN cast : NatGT(cast[i].weight, w)})

LightestReason == Least({Reasons[i].weight : i \in 1..Len(Reasons)})

\* C3: the decision is null exactly when no vote was cast or the vote
\* weights sum to zero (the empty list included), and exactly then the
\* result is {decision: null, confidence: 0.0, reasons: []}.
C3_NullIffNoSignal ==
    (last = "result" /\ data.status = "ok") =>
        LET nosignal == Voters(Ranked) = {} \/ NatGE(Zero, FloatAdd(BigScore, SmallScore))
        IN  /\ result.status = "ok"
            /\ result.decision = "None" <=> nosignal
            /\ result = NoDecision <=> nosignal
            /\ Ranked = <<>> => result = NoDecision

\* votes were cast, all of weight zero, and the result is the null one
C3_Witness ==
    /\ last = "result"
    /\ Voters(Ranked) # {}
    /\ FloatAdd(BigScore, SmallScore) = Zero
    /\ result = NoDecision

\* C4: when big_score + small_score > 0 the decision is Big if
\* big_score >= small_score and Small otherwise, the confidence is the
\* winning score over the total and lies in (0, 1]; two records voting
\* opposite sides with nonzero weights give a confidence strictly between
\* 0.5 and 1.0, or Big at exactly 0.5 when the two weights are equal.
C4_DecisionAndConfidence ==
    (last = "result" /\ data.status = "ok") =>
        LET big   == BigScore
            small == SmallScore
            num   == result.confidence.num
            den   == result.confidence.den
            total == FloatAdd(big, small)
        IN  NatGT(total, Zero) =>
            /\ result.decision = (IF NatGE(big, small) THEN "Big" ELSE "Small")
            /\ den = total
            /\ num = (IF NatGE(big, small) THEN big ELSE small)
            /\ NatGT(num, Zero) /\ NatGE(den, num)
            /\ (Len(Ranked) = 2 /\ NatGT(big, Zero) /\ NatGT(small, Zero)) =>
                   /\ result.decision # "None"
                   /\ big = small =>
                         (result.decision = "Big" /\ NatAdd(num, num) = den)
                   /\ big # small =>
                         (NatGT(NatAdd(num, num), den) /\ NatGT(den, num))

\* two records on opposite sides with equal weights: Big at exactly 0.5
C4_Witness ==
    /\ last = "result"
    /\ Len(Ranked) = 2
    /\ NatGT(BigScore, Zero)
    /\ BigScore = SmallScore
    /\ result.decision = "Big"
    /\ NatAdd(result.confidence.num, result.confidence.num) = result.confidence.den

\* C8: with a non-null decision, reasons holds min(5, votes cast) entries
\* in non-increasing weight order, each the side, weight, name and plan of
\* one cast vote, and no vote left out is heavier than one included.
C8_TopFiveReasons ==
    (last = "result" /\ data.status = "ok" /\ result.decision # "None") =>
        LET cast == Ballots(Ranked)
        IN  /\ Len(Reasons) = Min(5, Cardinality(DOMAIN cast))
            /\ \A i \in 1..(Len(Reasons) - 1) :
                  NatGE(Reasons[i].weight, Reasons[i + 1].weight)
            /\ \A i \in 1..Len(Reasons) :
                  Count(Reasons, Reasons[i]) <= BallotCount(cast, Reasons[i])
            /\ Heavier(cast, LightestReason) = Heavier(Reasons, LightestReason)

\* more than five votes, cast in an order that is not the weight order, and
\* a vote left out that is lighter than the heaviest one included
C8_Witness ==
    /\ last = "result"
    /\ result.decision # "None"
    /\ Cardinality(Voters(Ranked)) > 5
    /\ Len(Reasons) = 5
    /\ \E i, j \in Voters(Ranked) :
          i < j /\ NatGT(Weight(Ranked[j]), Weight(Ranked[i]))
    /\ \E i \in Voters(Ranked) :
          /\ NatGT(Reasons[1].weight, Weight(Ranked[i]))
          /\ Count(Reasons, Ballot(Ranked[i]))
                < BallotCount(Ballots(Ranked), Ballot(Ranked[i]))

-----------------------------------------------------------------------------
(* Properties of the vote classification *)

PlanLower == Lower(plan)

BothSides == HasBig(PlanLower) /\ HasSmall(PlanLower)

\* the record with this plan cast no vote
Abstained ==
    /\ side = "None"
    /\ outcome.status = "ok"
    /\ outcome.decision = "None"
    /\ outcome.reasons = <<>>

\* the six rules as ordered (predicate, side) pairs
Ladder(t) ==
    << [hit |-> HasBig(t) /\ ~HasSmall(t),            side |-> "Big"],
       [hit |-> HasSmall(t) /\ ~HasBig(t),            side |-> "Small"],
       [hit |-> HasHighDigit(t) /\ ~HasLowDigit(t),   side |-> "Big"],
       [hit |-> HasLowDigit(t) /\ ~HasHighDigit(t),   side |-> "Small"],
       [hit |-> HasUpWord(t),                         side |-> "Big"],
       [hit |-> HasDownWord(t),                       side |-> "Small"] >>

FirstMatch(t) ==
    LET hits == {i \in 1..Len(Ladder(t)) : Ladder(t)[i].hit}
    IN  IF hits = {} THEN "None" ELSE Ladder(t)[Lowest(hits)].side

\* C5 as stated: a plan text holding both "big" and "small" never casts a
\* vote, whatever else it holds.
C5_BothAlwaysAbstains ==
    (called /\ BothSides) => Abstained

\* C5 as amended: a plan text holding both "big" and "small" casts no vote
\* exactly when it also matches none of rules 3 to 6 (digits of one group
\* only, or one of the words high, up, low, down); rules 1 and 2 never
\* decide its side.
C5_BothAbstainsUnlessLaterRule ==
    (called /\ BothSides) =>
        /\ Abstained <=>
              /\ ~(HasHighDigit(PlanLower) /\ ~HasLowDigit(PlanLower))
              /\ ~(HasLowDigit(PlanLower) /\ ~HasHighDigit(PlanLower))
              /\ ~HasUpWord(PlanLower)
              /\ ~HasDownWord(PlanLower)
        /\ ~Abstained =>
              /\ Len(outcome.reasons) = 1
              /\ outcome.reasons[1].side = side
              /\ side = (IF HasHighDigit(PlanLower) /\ ~HasLowDigit(PlanLower) THEN "Big"
                         ELSE IF HasLowDigit(PlanLower) /\ ~HasHighDigit(PlanLower) THEN "Small"
                         ELSE IF HasUpWord(PlanLower) THEN "Big"
                         ELSE "Small")

\* a text with both words and digits of both groups abstains
C5_Witness ==
    /\ called
    /\ BothSides
    /\ HasHighDigit(PlanLower)
    /\ HasLowDigit(PlanLower)
    /\ Abstained

\* C6: the classification is the first matching rule of the six-rule
\* ladder, abstaining when none matches; digits from 6..9 only vote Big,
\* digits from 0..5 only vote Small, digits from both groups and no synonym
\* abstain.
C6_FirstMatchingRule ==
    called =>
        /\ side = FirstMatch(PlanLower)
        /\ plan = Range69 => side = "Big"
        /\ plan = Range05 => side = "Small"
        /\ plan = Range37 => side = "None"
        /\ side = "None" <=> outcome.reasons = <<>>
        /\ side # "None" =>
              (Len(outcome.reasons) = 1 /\ outcome.reasons[1].side = side)

\* a text classified by a digit rule that also matches the synonym rule of
\* the other side
C6_Witness ==
    /\ called
    /\ side = "Big"
    /\ ~HasBig(PlanLower) /\ ~HasSmall(PlanLower)
    /\ HasHighDigit(PlanLower) /\ ~HasLowDigit(PlanLower)
    /\ HasDownWord(PlanLower) /\ ~HasUpWord(PlanLower)

-----------------------------------------------------------------------------
(* Failure policy of the Decision Aggregator *)

\* C7: whatever records are passed, with plan, hit_rate or trade missing,
\* null or of the wrong type, the call returns a Decision and never raises.
C7_NeverRaises ==
    called => outcome.status = "ok"

=============================================================================
